---- MODULE Spec2Model ----
(***************************************************************************)
(* The audio-object traversal of cubeb-coreaudio-samples: src/lib.rs       *)
(* (property accessors, traverse_obj, traverse_with_options,               *)
(* TraversalOptions) and src/bin/traversal.rs (main).                      *)
(*                                                                         *)
(* The audio service is the environment: what it answers for each object   *)
(* is held in svc and does not change during a run.  The debug_tree        *)
(* accumulator is the pair (tree, path): tree is the list of nodes added   *)
(* so far, each with the index of its parent node, path the stack of the   *)
(* branches that are still open.  lst, str and acl hold the state of one   *)
(* list read, one string read and one channel-layout expansion, for the    *)
(* specifications that follow those functions step by step.                *)
(***************************************************************************)
EXTENDS Integers, Sequences, FiniteSets, TLC

VARIABLES args, pc, opt, passes, stack, tree, path, out, svc, lst, str, acl

vars == <<args, pc, opt, passes, stack, tree, path, out, svc, lst, str, acl>>

(***************************************************************************)
(* Bounds of the model.                                                    *)
(***************************************************************************)
\* objects of the graphs whose shape varies (ids 1..NumObj)
NumObj == 4
\* objects of the graphs whose classes and filter options vary
FilterObjs == 3
\* traversal passes of one run in wait mode
MaxPasses == 2
\* recursion depth at which the native stack is taken to be exhausted
MaxDepth == 6
\* largest byte size the size query reports in the list-read runs
MaxBytes == 9

(***************************************************************************)
(* TraversalOptions (bitflags over u16).                                   *)
(***************************************************************************)
INCLUDE_BOXES == 1
INCLUDE_CLOCKS == 2
INCLUDE_STREAMS == 4
INCLUDE_FORMATS == 8
INCLUDE_CHANNELS == 16
INCLUDE_CONTROLS == 32
INCLUDE_PLUGINS == 64
INCLUDE_PROCESSES == 128
DEBUG == 256

U16 == 65536

Flags ==
    {INCLUDE_BOXES, INCLUDE_CLOCKS, INCLUDE_STREAMS, INCLUDE_FORMATS,
     INCLUDE_CHANNELS, INCLUDE_CONTROLS, INCLUDE_PLUGINS, INCLUDE_PROCESSES,
     DEBUG}

\* bit f (a power of two) of the bit set b
Bit(b, f) == (b \div f) % 2

\* b & f for a single-bit f; b | f; b & !f
Contains(b, f) == Bit(b, f) = 1

Insert(b, f) == IF Contains(b, f) THEN b ELSE (b + f) % U16

Remove(b, f) == IF Contains(b, f) THEN b - f ELSE b

Empty == 0

RECURSIVE Union(_)
Union(fs) ==
    IF fs = {} THEN Empty
    ELSE LET f == CHOOSE x \in fs : TRUE IN Insert(Union(fs \ {f}), f)

\* TraversalOptions::all(): the union of the defined flags
All == Union(Flags)

(***************************************************************************)
(* Results of the accessors: Ok(value) or Err(status), status nonzero.     *)
(***************************************************************************)
Ok(x) == [ok |-> TRUE, v |-> x]

Err(e) == [ok |-> FALSE, v |-> e]

\* the nonzero OSStatus the service answers a failed read with
StatusErr == "OSStatus"

\* a variant of is_ok_and that lets a failed read match (is_err_or)
IsErrOr(r, S) == ~r.ok \/ r.v \in S

\* Result::is_ok_and(|id| id \in S)
IsOkAnd(r, S) == r.ok /\ r.v \in S

(***************************************************************************)
(* Class ids.  An id is written as the name of its constant; FourCC is an  *)
(* id that class_to_str does not know.                                     *)
(***************************************************************************)
kAudioObjectSystemObject == 1

kAudioSystemObjectClassID == "kAudioSystemObjectClassID"
kAudioAggregateDeviceClassID == "kAudioAggregateDeviceClassID"
kAudioSubDeviceClassID == "kAudioSubDeviceClassID"
kAudioDeviceClassID == "kAudioDeviceClassID"
kAudioObjectClassID == "kAudioObjectClassID"
kAudioBoxClassID == "kAudioBoxClassID"
kAudioClockDeviceClassID == "kAudioClockDeviceClassID"
kAudioStreamClassID == "kAudioStreamClassID"
kAudioPlugInClassID == "kAudioPlugInClassID"
kAudioProcessClassID == "kAudioProcessClassID"
kAudioControlClassID == "kAudioControlClassID"
kAudioSliderControlClassID == "kAudioSliderControlClassID"
kAudioLevelControlClassID == "kAudioLevelControlClassID"
kAudioBooleanControlClassID == "kAudioBooleanControlClassID"
kAudioSelectorControlClassID == "kAudioSelectorControlClassID"
kAudioStereoPanControlClassID == "kAudioStereoPanControlClassID"
kAudioVolumeControlClassID == "kAudioVolumeControlClassID"
FourCC == "zzzz"

ClassTable ==
    [kAudioSystemObjectClassID |-> "AudioSystemObject",
     kAudioAggregateDeviceClassID |-> "AudioAggregateDevice",
     kAudioSubDeviceClassID |-> "AudioSubDevice",
     kAudioSubTapClassID |-> "AudioSubTap",
     kAudioProcessClassID |-> "AudioProcess",
     kAudioTapClassID |-> "AudioTap",
     kAudioObjectClassIDWildcard |-> "AudioObjectClassIDWildcard",
     kAudioObjectClassID |-> "AudioObject",
     kAudioPlugInClassID |-> "AudioPlugIn",
     kAudioTransportManagerClassID |-> "AudioTransportManager",
     kAudioBoxClassID |-> "AudioBox",
     kAudioDeviceClassID |-> "AudioDevice",
     kAudioClockDeviceClassID |-> "AudioClockDevice",
     kAudioEndPointDeviceClassID |-> "AudioEndPointDevice",
     kAudioEndPointClassID |-> "AudioEndPoint",
     kAudioStreamClassID |-> "AudioStream",
     kAudioControlClassID |-> "AudioControl",
     kAudioSliderControlClassID |-> "AudioSliderControl",
     kAudioLevelControlClassID |-> "AudioLevelControl",
     kAudioVolumeControlClassID |-> "AudioVolumeControl",
     kAudioLFEVolumeControlClassID |-> "AudioLFEVolumeControl",
     kAudioBooleanControlClassID |-> "AudioBooleanControl",
     kAudioMuteControlClassID |-> "AudioMuteControl",
     kAudioSoloControlClassID |-> "AudioSoloControl",
     kAudioJackControlClassID |-> "AudioJackControl",
     kAudioLFEMuteControlClassID |-> "AudioLFEMuteControl",
     kAudioPhantomPowerControlClassID |-> "AudioPhantomPowerControl",
     kAudioPhaseInvertControlClassID |-> "AudioPhaseInvertControl",
     kAudioClipLightControlClassID |-> "AudioClipLightControl",
     kAudioTalkbackControlClassID |-> "AudioTalkbackControl",
     kAudioListenbackControlClassID |-> "AudioListenbackControl",
     kAudioSelectorControlClassID |-> "AudioSelectorControl",
     kAudioDataSourceControlClassID |-> "AudioDataSourceControl",
     kAudioDataDestinationControlClassID |-> "AudioDataDestinationControl",
     kAudioClockSourceControlClassID |-> "AudioClockSourceControl",
     kAudioLineLevelControlClassID |-> "AudioLineLevelControl",
     kAudioHighPassFilterControlClassID |-> "AudioHighPassFilterControl",
     kAudioStereoPanControlClassID |-> "AudioStereoPanControl",
     kAudioISubOwnerControlClassID |-> "AudioISubOwnerControl",
     kAudioBootChimeVolumeControlClassID |-> "AudioBootChimeVolumeControl"]

\* Some(name) or None
class_to_str(id) ==
    IF id \in DOMAIN ClassTable THEN Ok(ClassTable[id]) ELSE Err("None")

(***************************************************************************)
(* The tree accumulator (debug_tree's default tree).  A node is a branch   *)
(* or a leaf; parent is the index in the tree of the branch it was added   *)
(* to, 0 at the top level.                                                 *)
(***************************************************************************)
Branch(o) ==
    [parent |-> 0, kind |-> "branch", obj |-> o, label |-> "AudioObjectID",
     form |-> "", text |-> ""]

Leaf(l, f, t) ==
    [parent |-> 0, kind |-> "leaf", obj |-> 0, label |-> l, form |-> f,
     text |-> t]

\* the branch that is the current insertion target, 0 when none is open
Current(p) == IF p = <<>> THEN 0 ELSE p[Len(p)]

\* add_leaf!: the leaf is added under the current branch
add_leaf(t, p, leaf) == Append(t, [leaf EXCEPT !.parent = Current(p)])

\* add_leaf for each leaf of ls in turn, the current branch staying the same
add_leaves(t, p, ls) ==
    t \o [k \in 1..Len(ls) |-> [ls[k] EXCEPT !.parent = Current(p)]]

\* add_branch!: the branch is added under the current branch and becomes
\* the current one until the scope that opened it ends
add_branch(t, p, o) ==
    [tree |-> add_leaf(t, p, Branch(o)), path |-> Append(p, Len(t) + 1)]

\* a variant in which the scope of a branch never ends
exit_branch_never(p) == p

\* the end of the scope that opened the current branch
exit_branch(p) == IF p = <<>> THEN p ELSE SubSeq(p, 1, Len(p) - 1)

\* a variant that prints the tree and keeps it (peek_print)
flush_print_keeping(o, t) == [out |-> Append(o, t), tree |-> t, path |-> <<>>]

\* flush_print(): the accumulated tree is printed and the accumulator
\* cleared
flush_print(o, t) == [out |-> Append(o, t), tree |-> <<>>, path |-> <<>>]

(***************************************************************************)
(* The property accessors, as the walk uses them.  The service answers a   *)
(* read of (object, label) with an error status when the pair is in        *)
(* svc.fail; with status 0 and data whose decoding fails an assertion when *)
(* the pair is in svc.bad (a null or undecodable text handle, a channel    *)
(* layout shorter than its header); and with status 0 and a value          *)
(* otherwise.                                                              *)
(***************************************************************************)
Objects == DOMAIN svc.owned

Failed(o, l) == <<o, l>> \in svc.fail

\* get_list_property::<AudioObjectID>(obj, kAudioObjectPropertyOwnedObjects)
get_owned_objects(o) ==
    IF Failed(o, "OwnedObjects") THEN Err(StatusErr) ELSE Ok(svc.owned[o])

\* get_property::<AudioClassID>(obj, kAudioObjectPropertyBaseClass)
get_base_class(o) ==
    IF Failed(o, "BaseClass") THEN Err(StatusErr) ELSE Ok(svc.base[o])

\* get_property::<AudioClassID>(obj, kAudioObjectPropertyClass)
get_class(o) ==
    IF Failed(o, "Class") THEN Err(StatusErr) ELSE Ok(svc.class[o])

(***************************************************************************)
(* One use of prop!.  A read is its label (the selector's name after       *)
(* "Property", behind "Input " or "Output " for a scoped read) and its     *)
(* kind: a text read decodes a text handle, a layout read maps the bytes   *)
(* through expand_channel_layout, any other read takes the value as it is. *)
(***************************************************************************)
P(name) == [label |-> name, kind |-> "value"]

PString(name) == [label |-> name, kind |-> "string"]

PInput(name) == [label |-> "Input " \o name, kind |-> "value"]

POutput(name) == [label |-> "Output " \o name, kind |-> "value"]

PLayout(name) == [label |-> "Output " \o name, kind |-> "layout"]

\* the fetch of the read panics: StringRef::new / utf8_from_cfstringref /
\* expand_channel_layout assert on the data of a successful read
PropPanics(o, rd) ==
    /\ rd.kind \in {"string", "layout"}
    /\ ~Failed(o, rd.label)
    /\ <<o, rd.label>> \in svc.bad

\* a variant of prop! that prints the result whatever the options are
prop_result_always(o, rd, b) ==
    <<Leaf(rd.label, IF Failed(o, rd.label) THEN "Err" ELSE "Ok", "")>>

\* prop!(@internal ...): the leaves one read adds
prop(o, rd, b) ==
    IF Contains(b, DEBUG)
    THEN <<Leaf(rd.label, IF Failed(o, rd.label) THEN "Err" ELSE "Ok", "")>>
    ELSE IF ~Failed(o, rd.label) THEN <<Leaf(rd.label, "value", "")>>
    ELSE <<>>

\* a variant in which the first failed read ends the reads of the object
\* (the ? operator)
RECURSIVE props_until_error(_, _, _)
props_until_error(o, rds, b) ==
    IF rds = <<>> THEN [leaves |-> <<>>, panicked |-> FALSE]
    ELSE IF PropPanics(o, Head(rds)) THEN [leaves |-> <<>>, panicked |-> TRUE]
    ELSE IF Failed(o, Head(rds).label)
    THEN [leaves |-> prop(o, Head(rds), b), panicked |-> FALSE]
    ELSE [props_until_error(o, Tail(rds), b)
             EXCEPT !.leaves = prop(o, Head(rds), b) \o @]

\* a sequence of prop! uses: the leaves added, up to the first panic
RECURSIVE props(_, _, _)
props(o, rds, b) ==
    IF rds = <<>> THEN [leaves |-> <<>>, panicked |-> FALSE]
    ELSE IF PropPanics(o, Head(rds)) THEN [leaves |-> <<>>, panicked |-> TRUE]
    ELSE [props(o, Tail(rds), b) EXCEPT !.leaves = prop(o, Head(rds), b) \o @]

\* add_class_id(identifier, id)
add_class_id(identifier, id) ==
    IF ~id.ok THEN Leaf(identifier, "Err", id.v)
    ELSE IF class_to_str(id.v).ok
         THEN Leaf(identifier, "Known", class_to_str(id.v).v)
         ELSE Leaf(identifier, "FourCC", id.v)

(***************************************************************************)
(* The property sets.                                                      *)
(***************************************************************************)
common_properties ==
    <<P("Owner"), PString("Name"), PString("ModelName"),
      PString("Manufacturer"), PString("ElementName"),
      PString("ElementNumberName"), PString("DeviceUID")>>

traverse_aggregate_device == <<P("TapList"), P("SubTapList")>>

traverse_device(b) ==
    <<PString("ConfigurationApplication"), PString("DeviceUID"),
      PString("ModelUID"), P("TransportType"), P("HogMode"),
      P("RelatedDevices"), P("ActiveSubDeviceList"), P("ClockDomain"),
      PString("ClockDevice"), P("DeviceIsAlive"),
      P("DeviceIsRunningSomewhere"), P("DeviceIsRunning"),
      PInput("DeviceCanBeDefaultDevice"), POutput("DeviceCanBeDefaultDevice"),
      POutput("DeviceCanBeDefaultSystemDevice"), PInput("Latency"),
      POutput("Latency"), PInput("Streams"), POutput("Streams"),
      P("ControlList"), PInput("SafetyOffset"), POutput("SafetyOffset"),
      P("ActualSampleRate"), P("NominalSampleRate")>>
    \o (IF Contains(b, INCLUDE_FORMATS)
        THEN <<P("AvailableNominalSampleRates")>> ELSE <<>>)
    \o <<P("BufferFrameSize"), P("BufferFrameSizeRange"),
         P("UsesVariableBufferFrameSizes"),
         PInput("PreferredChannelsForStereo"),
         POutput("PreferredChannelsForStereo")>>
    \o (IF Contains(b, INCLUDE_CHANNELS)
        THEN <<PLayout("PreferredChannelLayout")>> ELSE <<>>)
    \o <<P("IOCycleUsage"), PInput("ProcessMute")>>

\* a variant that reads the available formats whatever the options are
traverse_stream_ungated(b) ==
    <<P("IsActive"), P("Direction"), P("TerminalType"), P("StartingChannel"),
      PInput("Latency"), POutput("Latency"), P("VirtualFormat"),
      P("AvailableVirtualFormats"), P("PhysicalFormat"),
      P("AvailablePhysicalFormats")>>

traverse_stream(b) ==
    <<P("IsActive"), P("Direction"), P("TerminalType"), P("StartingChannel"),
      PInput("Latency"), POutput("Latency"), P("VirtualFormat")>>
    \o (IF Contains(b, INCLUDE_FORMATS)
        THEN <<P("AvailableVirtualFormats")>> ELSE <<>>)
    \o <<P("PhysicalFormat")>>
    \o (IF Contains(b, INCLUDE_FORMATS)
        THEN <<P("AvailablePhysicalFormats")>> ELSE <<>>)

traverse_process ==
    <<P("PID"), PString("BundleID"), PInput("Devices"), POutput("Devices"),
      P("IsRunning"), P("IsRunningInput"), P("IsRunningOutput")>>

traverse_hw ==
    <<P("Devices"), P("DefaultInputDevice"), P("DefaultOutputDevice"),
      P("DefaultSystemOutputDevice"), P("MixStereoToMono"), P("PlugInList"),
      P("TransportManagerList"), P("BoxList"), P("ClockDeviceList"),
      P("ProcessIsMain"), P("IsInitingOrExiting"), P("ProcessInputMute"),
      P("ProcessIsAudible"), P("SleepingIsAllowed"),
      P("UnloadingIsAllowed"), P("HogModeIsAllowed"),
      P("UserSessionIsActiveOrHeadless"), P("PowerHint"),
      P("ProcessObjectList"), P("TapList")>>

\* a variant whose aggregate-device arm calls traverse_device only
class_properties_aggregate_as_device(cls, b) ==
    IF ~cls.ok THEN <<>>
    ELSE IF cls.v = kAudioSystemObjectClassID THEN traverse_hw
    ELSE IF cls.v \in {kAudioAggregateDeviceClassID, kAudioSubDeviceClassID,
                       kAudioDeviceClassID}
         THEN traverse_device(b)
    ELSE IF cls.v = kAudioStreamClassID THEN traverse_stream(b)
    ELSE IF cls.v = kAudioProcessClassID THEN traverse_process
    ELSE <<>>

\* match class_id { ... }: the class-specific reads
class_properties(cls, b) ==
    IF ~cls.ok THEN <<>>
    ELSE IF cls.v = kAudioSystemObjectClassID THEN traverse_hw
    ELSE IF cls.v = kAudioAggregateDeviceClassID
         THEN traverse_aggregate_device \o traverse_device(b)
    ELSE IF cls.v \in {kAudioSubDeviceClassID, kAudioDeviceClassID}
         THEN traverse_device(b)
    ELSE IF cls.v = kAudioStreamClassID THEN traverse_stream(b)
    ELSE IF cls.v = kAudioProcessClassID THEN traverse_process
    ELSE <<>>

(***************************************************************************)
(* traverse_obj: the filter policy.                                        *)
(***************************************************************************)
ControlBaseClasses ==
    {kAudioControlClassID, kAudioSliderControlClassID,
     kAudioLevelControlClassID, kAudioBooleanControlClassID,
     kAudioSelectorControlClassID, kAudioStereoPanControlClassID}

SkipControls(base, b) ==
    ~Contains(b, INCLUDE_CONTROLS) /\ IsOkAnd(base, ControlBaseClasses)

SkipBoxes(cls, b) ==
    ~Contains(b, INCLUDE_BOXES) /\ IsOkAnd(cls, {kAudioBoxClassID})

SkipClocks(cls, b) ==
    ~Contains(b, INCLUDE_CLOCKS) /\ IsOkAnd(cls, {kAudioClockDeviceClassID})

SkipStreams(cls, b) ==
    ~Contains(b, INCLUDE_STREAMS) /\ IsOkAnd(cls, {kAudioStreamClassID})

\* a variant of the plug-in rule that tests the option of the boxes
SkipPluginsByBoxes(cls, b) ==
    ~Contains(b, INCLUDE_BOXES) /\ IsOkAnd(cls, {kAudioPlugInClassID})

SkipPlugins(cls, b) ==
    ~Contains(b, INCLUDE_PLUGINS) /\ IsOkAnd(cls, {kAudioPlugInClassID})

SkipProcesses(cls, b) ==
    ~Contains(b, INCLUDE_PROCESSES) /\ IsOkAnd(cls, {kAudioProcessClassID})

\* the early returns of traverse_obj
Skipped(base, cls, b) ==
    IF SkipControls(base, b) THEN TRUE
    ELSE IF SkipBoxes(cls, b) THEN TRUE
    ELSE IF SkipClocks(cls, b) THEN TRUE
    ELSE IF SkipStreams(cls, b) THEN TRUE
    ELSE IF SkipPlugins(cls, b) THEN TRUE
    ELSE SkipProcesses(cls, b)

(***************************************************************************)
(* The recursion of traverse_obj.  A frame is one active call: phase       *)
(* "enter" before the body has run, "kids" while the loop over the owned   *)
(* objects runs, next the index of the loop's next element.                *)
(***************************************************************************)
Call(o) == [obj |-> o, phase |-> "enter", kids |-> <<>>, next |-> 1]

Top == stack[Len(stack)]

Pop(s) == SubSeq(s, 1, Len(s) - 1)

\* what the body of traverse_obj(o, b) adds to the accumulator before the
\* loop over the owned objects
visit(t, p, o, b) ==
    LET br == add_branch(t, p, o)
        t1 == add_leaf(br.tree, br.path,
                       add_class_id("BaseClass", get_base_class(o)))
        t2 == add_leaf(t1, br.path, add_class_id("Class", get_class(o)))
    IN  CHOOSE v \in
          {[tree |-> add_leaves(t2, br.path, r.leaves), path |-> br.path,
            panicked |-> r.panicked] :
              r \in {props(o, common_properties
                               \o class_properties(get_class(o), b), b)}} :
          TRUE

RECURSIVE Reverse(_)
Reverse(q) == IF q = <<>> THEN <<>> ELSE Append(Reverse(Tail(q)), Head(q))

\* a variant that runs over the owned objects last to first
owned_loop_reversed(o) ==
    IF get_owned_objects(o).ok THEN Reverse(get_owned_objects(o).v) ELSE <<>>

\* a variant that runs over the list the service holds whatever the status
\* of the read was
owned_loop_unchecked(o) == svc.owned[o]

\* the owned objects the loop runs over
owned_loop(o) ==
    IF get_owned_objects(o).ok THEN get_owned_objects(o).v ELSE <<>>

\* traverse_obj(obj, opt), from its entry to the loop over the owned objects
TraverseObj ==
    /\ pc = "walk"
    /\ stack # <<>>
    /\ Top.phase = "enter"
    /\ IF Skipped(get_base_class(Top.obj), get_class(Top.obj), opt)
       THEN /\ stack' = Pop(stack)
            /\ UNCHANGED <<pc, tree, path>>
       ELSE \E v \in {visit(tree, path, Top.obj, opt)} :
                /\ tree' = v.tree
                /\ IF v.panicked
                   THEN /\ pc' = "panicked"
                        /\ stack' = <<>>
                        /\ path' = <<>>
                   ELSE /\ pc' = pc
                        /\ path' = v.path
                        /\ stack' = [stack EXCEPT ![Len(stack)] =
                                       [Top EXCEPT !.phase = "kids",
                                                   !.kids = owned_loop(Top.obj)]]
    /\ UNCHANGED <<args, opt, passes, out, svc, lst, str, acl>>

\* a variant of the loop that calls traverse_obj on the object itself, not
\* on the owned object the loop is at
TraverseChildSelf ==
    /\ pc = "walk"
    /\ stack # <<>>
    /\ Top.phase = "kids"
    /\ Top.next <= Len(Top.kids)
    /\ IF Len(stack) >= MaxDepth
       THEN /\ pc' = "overflow"
            /\ UNCHANGED stack
       ELSE /\ pc' = pc
            /\ stack' = Append([stack EXCEPT ![Len(stack)].next = @ + 1],
                               Call(Top.obj))
    /\ UNCHANGED <<args, opt, passes, tree, path, out, svc, lst, str, acl>>

\* a variant of the loop that passes over an owned object that is already
\* on the recursion path (a visited set)
TraverseChildGuarded ==
    /\ pc = "walk"
    /\ stack # <<>>
    /\ Top.phase = "kids"
    /\ Top.next <= Len(Top.kids)
    /\ IF \E k \in 1..Len(stack) : stack[k].obj = Top.kids[Top.next]
       THEN /\ pc' = pc
            /\ stack' = [stack EXCEPT ![Len(stack)].next = @ + 1]
       ELSE IF Len(stack) >= MaxDepth
       THEN /\ pc' = "overflow"
            /\ UNCHANGED stack
       ELSE /\ pc' = pc
            /\ stack' = Append([stack EXCEPT ![Len(stack)].next = @ + 1],
                               Call(Top.kids[Top.next]))
    /\ UNCHANGED <<args, opt, passes, tree, path, out, svc, lst, str, acl>>

\* a variant of the loop that passes over an owned object that has a branch
\* in the tree of this pass already (a walk that visits each object once)
TraverseChildOnce ==
    /\ pc = "walk"
    /\ stack # <<>>
    /\ Top.phase = "kids"
    /\ Top.next <= Len(Top.kids)
    /\ IF \E i \in 1..Len(tree) :
             tree[i].kind = "branch" /\ tree[i].obj = Top.kids[Top.next]
       THEN /\ pc' = pc
            /\ stack' = [stack EXCEPT ![Len(stack)].next = @ + 1]
       ELSE IF Len(stack) >= MaxDepth
       THEN /\ pc' = "overflow"
            /\ UNCHANGED stack
       ELSE /\ pc' = pc
            /\ stack' = Append([stack EXCEPT ![Len(stack)].next = @ + 1],
                               Call(Top.kids[Top.next]))
    /\ UNCHANGED <<args, opt, passes, tree, path, out, svc, lst, str, acl>>

\* for obj in objects { traverse_obj(obj, opt) }: the next call.  A call
\* at depth MaxDepth exhausts the native stack.
TraverseChild ==
    /\ pc = "walk"
    /\ stack # <<>>
    /\ Top.phase = "kids"
    /\ Top.next <= Len(Top.kids)
    /\ IF Len(stack) >= MaxDepth
       THEN /\ pc' = "overflow"
            /\ UNCHANGED stack
       ELSE /\ pc' = pc
            /\ stack' = Append([stack EXCEPT ![Len(stack)].next = @ + 1],
                               Call(Top.kids[Top.next]))
    /\ UNCHANGED <<args, opt, passes, tree, path, out, svc, lst, str, acl>>

\* a variant of the end of traverse_obj that flushes the tree at each return
TraverseReturnFlushing ==
    /\ pc = "walk"
    /\ stack # <<>>
    /\ Top.phase = "kids"
    /\ Top.next > Len(Top.kids)
    /\ stack' = Pop(stack)
    /\ out' = Append(out, tree)
    /\ tree' = <<>>
    /\ path' = <<>>
    /\ UNCHANGED <<args, pc, opt, passes, svc, lst, str, acl>>

\* the end of traverse_obj: the scope of its branch ends
TraverseReturn ==
    /\ pc = "walk"
    /\ stack # <<>>
    /\ Top.phase = "kids"
    /\ Top.next > Len(Top.kids)
    /\ stack' = Pop(stack)
    /\ path' = exit_branch(path)
    /\ UNCHANGED <<args, pc, opt, passes, tree, out, svc, lst, str, acl>>

\* traverse_with_options, after traverse_obj has returned:
\* default_tree().flush_print()
Flush ==
    /\ pc = "walk"
    /\ stack = <<>>
    /\ LET f == flush_print(out, tree)
       IN  /\ out' = f.out
           /\ tree' = f.tree
           /\ path' = f.path
    /\ pc' = IF args.wait THEN "run" ELSE "exit"
    /\ UNCHANGED <<args, opt, passes, stack, svc, lst, str, acl>>

(***************************************************************************)
(* main of src/bin/traversal.rs: the options from the arguments, then one  *)
(* pass, or one pass per line read in wait mode.                           *)
(***************************************************************************)
IncludeArgs ==
    <<[arg |-> "include_boxes", flag |-> INCLUDE_BOXES],
      [arg |-> "include_clocks", flag |-> INCLUDE_CLOCKS],
      [arg |-> "include_streams", flag |-> INCLUDE_STREAMS],
      [arg |-> "include_formats", flag |-> INCLUDE_FORMATS],
      [arg |-> "include_channels", flag |-> INCLUDE_CHANNELS],
      [arg |-> "include_controls", flag |-> INCLUDE_CONTROLS],
      [arg |-> "include_plugins", flag |-> INCLUDE_PLUGINS],
      [arg |-> "include_processes", flag |-> INCLUDE_PROCESSES]>>

ArgNames ==
    {IncludeArgs[i].arg : i \in 1..Len(IncludeArgs)}
    \cup {"wait", "include_all", "debug"}

\* if args.include_x { opt.insert(INCLUDE_X) }, in the order of main
RECURSIVE insert_flags(_, _, _)
insert_flags(a, b, i) ==
    IF i > Len(IncludeArgs) THEN b
    ELSE insert_flags(a,
                      IF a[IncludeArgs[i].arg]
                      THEN Insert(b, IncludeArgs[i].flag) ELSE b,
                      i + 1)

\* a variant of the preset that leaves DEBUG in
include_all_with_debug(a, b) == IF a.include_all THEN All ELSE b

\* if args.include_all { opt = all(); opt.remove(DEBUG) }
include_all(a, b) == IF a.include_all THEN Remove(All, DEBUG) ELSE b

\* if args.debug { opt.insert(DEBUG) }
debug(a, b) == IF a.debug THEN Insert(b, DEBUG) ELSE b

MainFlags ==
    /\ pc = "start"
    /\ opt' = insert_flags(args, Empty, 1)
    /\ pc' = "include_all"
    /\ UNCHANGED <<args, passes, stack, tree, path, out, svc, lst, str, acl>>

MainIncludeAll ==
    /\ pc = "include_all"
    /\ opt' = include_all(args, opt)
    /\ pc' = "debug"
    /\ UNCHANGED <<args, passes, stack, tree, path, out, svc, lst, str, acl>>

MainDebug ==
    /\ pc = "debug"
    /\ opt' = debug(args, opt)
    /\ pc' = "run"
    /\ UNCHANGED <<args, passes, stack, tree, path, out, svc, lst, str, acl>>

\* the lines read_line can deliver: a text, ended by a newline or (at the end
\* of the input) not
Lines ==
    {[text |-> t, newline |-> n] :
        t \in {"q", "quit", "exit", "", "go"}, n \in BOOLEAN}

\* the call traverse_with_options(opt)
traverse_with_options ==
    /\ pc' = "walk"
    /\ stack' = <<Call(kAudioObjectSystemObject)>>
    /\ passes' = passes + 1

\* one turn of the loop of wait mode
MainWait ==
    /\ pc = "run"
    /\ args.wait
    /\ \E line \in Lines :
          IF ~line.newline
          THEN /\ pc' = "panicked"
               /\ UNCHANGED <<stack, passes>>
          ELSE IF line.text \in {"q", "quit", "exit"}
          THEN /\ pc' = "exit"
               /\ UNCHANGED <<stack, passes>>
          ELSE /\ passes < MaxPasses
               /\ traverse_with_options
    /\ UNCHANGED <<args, opt, tree, path, out, svc, lst, str, acl>>

\* without wait mode: one pass
MainOnce ==
    /\ pc = "run"
    /\ ~args.wait
    /\ traverse_with_options
    /\ UNCHANGED <<args, opt, tree, path, out, svc, lst, str, acl>>

\* the stream and the context are destroyed and main returns
MainExit ==
    /\ pc = "exit"
    /\ pc' = "done"
    /\ UNCHANGED <<args, opt, passes, stack, tree, path, out, svc, lst, str, acl>>

Next ==
    \/ MainFlags
    \/ MainIncludeAll
    \/ MainDebug
    \/ MainWait
    \/ MainOnce
    \/ TraverseObj
    \/ TraverseChild
    \/ TraverseReturn
    \/ Flush
    \/ MainExit

(***************************************************************************)
(* The runs checked.  The service's answers and the arguments are drawn    *)
(* from bounded families; the program starts at the top of main.           *)
(***************************************************************************)
RECURSIVE Sorted(_)
Sorted(S) ==
    IF S = {} THEN <<>>
    ELSE LET m == CHOOSE x \in S : \A y \in S : x <= y
         IN  <<m>> \o Sorted(S \ {m})

\* the ownership trees over the objects 1..n, rooted at the system object:
\* each object above 1 is owned by one object of smaller id
OwnedTrees(n) ==
    {[o \in 1..n |-> Sorted({i \in 2..n : p[i] = o})] :
        p \in {q \in [2..n -> 1..n] : \A i \in 2..n : q[i] < i}}

\* a tree, or a tree with one more entry in one owned-objects list (an object
\* owned twice, listed twice, or owning one of its owners)
OwnedGraphs(n) ==
    OwnedTrees(n)
    \cup {[g EXCEPT ![e[1]] = Append(@, e[2])] :
            g \in OwnedTrees(n), e \in (1..n) \X (1..n)}

NoArgs == [a \in ArgNames |-> FALSE]

Service(owned, base, class, fail, bad) ==
    [owned |-> owned, base |-> base, class |-> class, fail |-> fail,
     bad |-> bad]

\* the system object and (n - 1) objects of class c2 (object 2) and c
\* (the others), of base class b2 and kAudioObjectClassID
Classes(n, c2, c) ==
    [o \in 1..n |-> IF o = kAudioObjectSystemObject
                    THEN kAudioSystemObjectClassID
                    ELSE IF o = 2 THEN c2 ELSE c]

Bases(n, b2) == [o \in 1..n |-> IF o = 2 THEN b2 ELSE kAudioObjectClassID]

Start(a, s) ==
    /\ args = a
    /\ svc = s
    /\ pc = "start"
    /\ opt = Empty
    /\ passes = 0
    /\ stack = <<>>
    /\ tree = <<>>
    /\ path = <<>>
    /\ out = <<>>
    /\ lst = [phase |-> "none"]
    /\ str = [phase |-> "none"]
    /\ acl = [phase |-> "none"]

\* graphs of every shape, a device and streams, everything included
Init ==
    \E g \in OwnedGraphs(NumObj), w \in BOOLEAN,
       f \in {{}} \cup {{<<o, "OwnedObjects">>} : o \in 1..NumObj} :
        Start([NoArgs EXCEPT !.include_all = TRUE, !.wait = w],
              Service(g, Bases(NumObj, kAudioObjectClassID),
                      Classes(NumObj, kAudioDeviceClassID, kAudioStreamClassID),
                      f, {}))

Spec == Init /\ [][Next]_vars

\* the answers drawn for the Class and the BaseClass read of object 2; "Err"
\* stands for a read that fails
ClassAnswers ==
    {kAudioSystemObjectClassID, kAudioAggregateDeviceClassID,
     kAudioSubDeviceClassID, kAudioDeviceClassID, kAudioBoxClassID,
     kAudioClockDeviceClassID, kAudioStreamClassID, kAudioPlugInClassID,
     kAudioProcessClassID, kAudioVolumeControlClassID, FourCC, "Err"}

BaseAnswers == ControlBaseClasses \cup {kAudioObjectClassID, "Err"}

FilterArgNames ==
    {"include_boxes", "include_clocks", "include_streams", "include_controls",
     "include_plugins", "include_processes"}

ArgsOf(S) == [a \in ArgNames |-> a \in S]

\* trees in which object 2 is of any class and base class and the other
\* objects are streams, under every combination of the six class filters
InitFilter ==
    \E g \in OwnedTrees(FilterObjs), c2 \in ClassAnswers, b2 \in BaseAnswers,
       S \in (SUBSET FilterArgNames) \cup {{"wait"}, {"wait", "include_all"}} :
        Start(ArgsOf(S),
              Service(g,
                      Bases(FilterObjs,
                            IF b2 = "Err" THEN kAudioObjectClassID ELSE b2),
                      Classes(FilterObjs,
                              IF c2 = "Err" THEN kAudioObjectClassID ELSE c2,
                              kAudioStreamClassID),
                      {<<2, "Class">> : x \in {c2} \cap {"Err"}}
                      \cup {<<2, "BaseClass">> : x \in {b2} \cap {"Err"}},
                      {}))

SpecFilter == InitFilter /\ [][Next]_vars

\* the labels of the reads made for an object of class c with every option
\* set, and those among them whose data is decoded
LabelsOf(c) ==
    LET rds == common_properties \o class_properties(Ok(c), All)
    IN  {rds[i].label : i \in 1..Len(rds)}

DecodedLabelsOf(c) ==
    LET rds == common_properties \o class_properties(Ok(c), All)
    IN  {rds[i].label : i \in {j \in 1..Len(rds) : rds[j].kind # "value"}}

\* the reads of object o of class c that fail: none, one, or all its
\* property reads
FailPatterns(o, c) ==
    {{}}
    \cup {{<<o, l>>} : l \in LabelsOf(c) \cup {"OwnedObjects", "BaseClass", "Class"}}
    \cup {{o} \X LabelsOf(c)}

BadPatterns(o, c) == {{<<o, l>>} : l \in DecodedLabelsOf(c)}

\* failing reads of the system object or of object 2, of class c2, or all
\* the property reads of both; or one read whose data cannot be decoded
ReadPatterns(c2) ==
    LET F == FailPatterns(1, kAudioSystemObjectClassID) \cup FailPatterns(2, c2)
            \cup {({1} \X LabelsOf(kAudioSystemObjectClassID))
                   \cup ({2} \X LabelsOf(c2))}
        B == BadPatterns(1, kAudioSystemObjectClassID) \cup BadPatterns(2, c2)
    IN  (F \X {{}}) \cup ({{}} \X B)

\* the system object owning object 2 and object 3, or object 2 owning 3
PropGraphs == {<<<<2, 3>>, <<>>, <<>>>>, <<<<2>>, <<3>>, <<>>>>}

PropArgs ==
    {{"include_all"}, {"include_all", "debug"},
     {"include_streams", "include_processes"},
     {"include_streams", "include_processes", "debug"},
     {"include_streams", "include_formats", "debug"},
     {"include_streams", "include_channels", "debug"},
     {"include_all", "debug", "wait"}}

\* an object 2 of each class that has a property set, with a stream, under
\* each pattern of failing reads, with and without debug mode
InitProps ==
    \E g \in PropGraphs,
       c2 \in {kAudioDeviceClassID, kAudioAggregateDeviceClassID,
               kAudioStreamClassID, kAudioProcessClassID, FourCC},
       S \in PropArgs :
      \E fb \in ReadPatterns(c2) :
        Start(ArgsOf(S),
              Service(g, Bases(Len(g), kAudioObjectClassID),
                      Classes(Len(g), c2, kAudioStreamClassID),
                      fb[1], fb[2]))

SpecProps == InitProps /\ [][Next]_vars

\* every combination of the arguments, over the system object owning a
\* stream
InitArgs ==
    \E S \in SUBSET ArgNames :
        Start(ArgsOf(S),
              Service(<<<<2>>, <<>>>>, Bases(2, kAudioObjectClassID),
                      Classes(2, kAudioStreamClassID, kAudioStreamClassID),
                      {}, {}))

SpecArgs == InitArgs /\ [][Next]_vars

\* arguments under which the streams are skipped, everything is walked, the
\* failed reads are reported, and a second pass is made
WalkArgs ==
    {{}, {"include_all"}, {"include_streams", "debug"},
     {"include_streams", "include_formats", "include_channels"},
     {"include_all", "debug", "wait"}}

\* error statuses on no read, on one of the three first reads of object 2,
\* on all its property reads, or on every read of every object
WalkFailures(n) ==
    {{}}
    \cup {{<<2, l>>} : l \in {"OwnedObjects", "BaseClass", "Class"}}
    \cup {{2} \X LabelsOf(kAudioDeviceClassID)}
    \cup {(1..n) \X (LabelsOf(kAudioSystemObjectClassID)
                     \cup LabelsOf(kAudioDeviceClassID)
                     \cup LabelsOf(kAudioStreamClassID)
                     \cup {"OwnedObjects", "BaseClass", "Class"})}

\* graphs of every shape, cyclic ones included, over a device and streams,
\* under the arguments of WalkArgs and the failures of WalkFailures
InitWalk ==
    \E g \in OwnedGraphs(FilterObjs), S \in WalkArgs,
       f \in WalkFailures(FilterObjs) :
        Start(ArgsOf(S),
              Service(g, Bases(FilterObjs, kAudioObjectClassID),
                      Classes(FilterObjs, kAudioDeviceClassID,
                              kAudioStreamClassID),
                      f, {}))

\* the walk is sequential code: a step that can be taken is taken
SpecWalk ==
    /\ InitWalk
    /\ [][Next]_vars
    /\ WF_vars(TraverseObj)
    /\ WF_vars(TraverseChild)
    /\ WF_vars(TraverseReturn)
    /\ WF_vars(Flush)

(***************************************************************************)
(* get_list_property_scoped::<T>, on its own.  The service's answers are   *)
(* the status and the byte size of the size query (q_status, q_size) and   *)
(* the status of the data fetch and the bytes the property holds when it   *)
(* is fetched (f_status, f_bytes); elem is size_of::<T>().                 *)
(***************************************************************************)
ElemSizes == {1, 4}

Statuses == {0, 560947818}

\* a variant that takes the byte size for the number of elements
vec_len_bytes(size, elem) == size

\* vec![T::default(); size / mem::size_of::<T>()]: the length of the vector
vec_len(size, elem) == size \div elem

\* the bytes the service writes into a buffer announced as size bytes
written(size, bytes) == IF bytes < size THEN bytes ELSE size

ListIdle == [phase |-> "none"]

InitList ==
    /\ \E e \in ElemSizes, qs \in Statuses, fs \in Statuses,
          qz \in 0..MaxBytes, fb \in 0..MaxBytes :
            lst = [phase |-> "call", elem |-> e, q_status |-> qs,
                   q_size |-> qz, f_status |-> fs, f_bytes |-> fb,
                   size |-> 0, objects |-> 0, capacity |-> 0,
                   ret |-> Err(0)]
    /\ args = NoArgs
    /\ svc = Service(<<>>, <<>>, <<>>, {}, {})
    /\ pc = "list"
    /\ opt = Empty
    /\ passes = 0
    /\ stack = <<>>
    /\ tree = <<>>
    /\ path = <<>>
    /\ out = <<>>
    /\ str = [phase |-> "none"]
    /\ acl = [phase |-> "none"]

\* the size query; a nonzero status is returned as it is
ListSize ==
    /\ lst.phase = "call"
    /\ lst' = IF lst.q_status # 0
              THEN [lst EXCEPT !.phase = "returned", !.ret = Err(lst.q_status)]
              ELSE [lst EXCEPT !.phase = "sized", !.size = lst.q_size]
    /\ UNCHANGED <<args, pc, opt, passes, stack, tree, path, out, svc, str, acl>>

\* the vector is allocated and the data fetched into it, the size variable
\* naming its capacity (lst.capacity is the value it has at the call); the
\* vector is returned when the status is 0.  Bytes written past the end of
\* the vector's buffer are a write outside the allocation: the call then
\* returns as it would have, or the process faults.
ListFetch ==
    /\ lst.phase = "sized"
    /\ \E fault \in BOOLEAN :
          /\ fault => written(lst.size, lst.f_bytes)
                          > vec_len(lst.size, lst.elem) * lst.elem
          /\ lst' = [lst EXCEPT
                       !.phase = IF fault THEN "faulted" ELSE "returned",
                       !.objects = vec_len(lst.size, lst.elem),
                       !.capacity = lst.size,
                       !.size = written(lst.size, lst.f_bytes),
                       !.ret = IF fault THEN Err(0)
                               ELSE IF lst.f_status = 0
                               THEN Ok(vec_len(lst.size, lst.elem))
                               ELSE Err(lst.f_status)]
    /\ UNCHANGED <<args, pc, opt, passes, stack, tree, path, out, svc, str, acl>>

NextList == ListSize \/ ListFetch

SpecList == InitList /\ [][NextList]_vars

(***************************************************************************)
(* get_string_property, on its own, called MaxReads times in a row.  The   *)
(* service answers a read with a status and, when the status is 0, with a  *)
(* text handle: null, or a new CFString that the caller owns.  str.texts   *)
(* holds the content of each handle obtained (the handle is its index)     *)
(* and str.released the number of CFRelease calls made on it.  A panic     *)
(* unwinds (the default panic strategy), dropping the live locals.         *)
(***************************************************************************)
MaxReads == 3

\* the contents of a text handle: a text, the empty text, a text whose
\* conversion reports no converted character (first or second call of
\* CFStringGetBytes), bytes that are not UTF-8
Texts == {"text", "empty", "unsized", "unconverted", "not_utf8"}

Null == 0

InitString ==
    /\ str = [phase |-> "call", reads |-> 1, handle |-> Null, ret |-> Err(0),
              texts |-> <<>>, released |-> <<>>]
    /\ args = NoArgs
    /\ svc = Service(<<>>, <<>>, <<>>, {}, {})
    /\ pc = "string"
    /\ opt = Empty
    /\ passes = 0
    /\ stack = <<>>
    /\ tree = <<>>
    /\ path = <<>>
    /\ out = <<>>
    /\ lst = [phase |-> "none"]
    /\ acl = [phase |-> "none"]

\* a variant of drop that forgets the handle (mem::forget)
drop_forgetting(released, h) == released

\* impl Drop for StringRef: CFRelease(self.0)
drop(released, h) == [released EXCEPT ![h] = @ + 1]

\* utf8_from_cfstringref and String::from_utf8(..).expect(..) in fmt:
\* Ok(text), or Err when one of their assertions fails
utf8_from_cfstringref(text) ==
    IF text = "empty" THEN Ok("")
    ELSE IF text = "unsized" THEN Err("assert size")
    ELSE IF text = "unconverted" THEN Err("assert converted_chars")
    ELSE IF text = "not_utf8" THEN Err("expect")
    ELSE Ok(text)

\* audio_object_get_property_data(obj, &address, &mut size, &mut str); a
\* nonzero status is returned as it is
StringFetch ==
    /\ pc = "string"
    /\ str.phase = "call"
    /\ \E status \in Statuses, h \in {"null"} \cup Texts :
         str' = IF status # 0
                THEN [str EXCEPT !.phase = "returned", !.ret = Err(status)]
                ELSE IF h = "null"
                THEN [str EXCEPT !.phase = "fetched", !.handle = Null]
                ELSE [str EXCEPT !.phase = "fetched",
                                 !.handle = Len(str.texts) + 1,
                                 !.texts = Append(@, h),
                                 !.released = Append(@, 0)]
    /\ UNCHANGED <<args, pc, opt, passes, stack, tree, path, out, svc, lst, acl>>

\* StringRef::new(str): the handle is asserted non-null and wrapped
StringNew ==
    /\ pc = "string"
    /\ str.phase = "fetched"
    /\ IF str.handle = Null
       THEN /\ str' = [str EXCEPT !.phase = "returned", !.ret = Err("panic")]
            /\ pc' = "panicked"
       ELSE /\ str' = [str EXCEPT !.phase = "wrapped"]
            /\ pc' = pc
    /\ UNCHANGED <<args, opt, passes, stack, tree, path, out, svc, lst, acl>>

\* into_string(self): the text is decoded through Display; the StringRef is
\* still alive
StringDecode ==
    /\ pc = "string"
    /\ str.phase = "wrapped"
    /\ LET r == utf8_from_cfstringref(str.texts[str.handle])
       IN  str' = [str EXCEPT !.phase = IF r.ok THEN "decoded" ELSE "unwinding",
                              !.ret = IF r.ok THEN r ELSE Err("panic")]
    /\ UNCHANGED <<args, pc, opt, passes, stack, tree, path, out, svc, lst, acl>>

\* the end of into_string, by return or by unwinding: self is dropped
StringDrop ==
    /\ pc = "string"
    /\ str.phase \in {"decoded", "unwinding"}
    /\ str' = [str EXCEPT !.phase = "returned",
                          !.released = drop(@, str.handle),
                          !.handle = Null]
    /\ pc' = IF str.phase = "unwinding" THEN "panicked" ELSE pc
    /\ UNCHANGED <<args, opt, passes, stack, tree, path, out, svc, lst, acl>>

\* the next read
StringNext ==
    /\ pc = "string"
    /\ str.phase = "returned"
    /\ str.reads < MaxReads
    /\ str' = [str EXCEPT !.phase = "call", !.reads = @ + 1, !.ret = Err(0)]
    /\ UNCHANGED <<args, pc, opt, passes, stack, tree, path, out, svc, lst, acl>>

NextString ==
    StringFetch \/ StringNew \/ StringDecode \/ StringDrop \/ StringNext

SpecString == InitString /\ [][NextString]_vars

(***************************************************************************)
(* expand_channel_layout, on its own.  The data is a byte vector of        *)
(* acl.len bytes; acl.count is the mNumberChannelDescriptions field its    *)
(* header holds when the data is long enough to hold one.  acl.dbg tells   *)
(* whether the build has debug assertions.  Reading *layout_ptr reads      *)
(* acl_len bytes; on shorter data that is a read past the end of the       *)
(* vector, which either goes unnoticed or faults.                          *)
(***************************************************************************)
MaxLayoutBytes == 72

MaxChannels == 3

\* mem::size_of::<AudioChannelLayout>(): three u32 and one description
acl_len == 32

\* mem::size_of::<AudioChannelDescription>(): two u32 and three f32
acd_len == 20

acl_base_len == acl_len - acd_len

Layouts ==
    [len : 0..MaxLayoutBytes, count : 0..MaxChannels, dbg : BOOLEAN]

\* (data.len() - acl_base_len) / acd_len
num_channels(len) == (len - acl_base_len) \div acd_len

\* assert!(data.len() >= acl_base_len) and debug_assert_eq!(..): whether
\* expand_channel_layout panics on the data
layout_asserts(l) ==
    \/ l.len < acl_base_len
    \/ l.dbg /\ l.count # num_channels(l.len)

\* AudioChannelLayout_ExpandedChannels::new(*layout_ptr, cs.into()): the
\* count is the header's, the descriptions are num_channels many
expand_channel_layout(l) ==
    [mNumberChannelDescriptions |-> l.count,
     mChannelDescriptions |-> num_channels(l.len)]

InitLayout ==
    /\ \E l \in Layouts : acl = [phase |-> "call", data |-> l, ret |-> <<>>]
    /\ args = NoArgs
    /\ svc = Service(<<>>, <<>>, <<>>, {}, {})
    /\ pc = "layout"
    /\ opt = Empty
    /\ passes = 0
    /\ stack = <<>>
    /\ tree = <<>>
    /\ path = <<>>
    /\ out = <<>>
    /\ lst = [phase |-> "none"]
    /\ str = [phase |-> "none"]

\* the assertions on the length of the data and, in a debug build, on the
\* count in its header
LayoutAssert ==
    /\ pc = "layout"
    /\ acl.phase = "call"
    /\ IF layout_asserts(acl.data)
       THEN /\ acl' = [acl EXCEPT !.phase = "panicked"]
            /\ pc' = "panicked"
       ELSE /\ acl' = [acl EXCEPT !.phase = "checked"]
            /\ pc' = pc
    /\ UNCHANGED <<args, opt, passes, stack, tree, path, out, svc, lst, str>>

\* the header and the descriptions are copied out of the data
LayoutCopy ==
    /\ pc = "layout"
    /\ acl.phase = "checked"
    /\ \E fault \in {f \in BOOLEAN : f => acl.data.len < acl_len} :
         IF fault
         THEN /\ acl' = [acl EXCEPT !.phase = "faulted"]
              /\ pc' = "panicked"
         ELSE /\ acl' = [acl EXCEPT !.phase = "returned",
                                    !.ret = expand_channel_layout(acl.data)]
              /\ pc' = pc
    /\ UNCHANGED <<args, opt, passes, stack, tree, path, out, svc, lst, str>>

NextLayout == LayoutAssert \/ LayoutCopy

SpecLayout == InitLayout /\ [][NextLayout]_vars

(***************************************************************************)
(* Walks in which the preferred channel layout of a device is read.  The   *)
(* system object owns device 2, which owns stream 3.  acl.data is the data *)
(* the service returns for the layout read of the device; the read is in   *)
(* svc.bad when expand_channel_layout panics on that data or when its read *)
(* past the end of data shorter than acl_len faults.                       *)
(***************************************************************************)
LayoutRead == <<2, "Output PreferredChannelLayout">>

LayoutArgs ==
    {{"include_all"}, {"include_channels"}, {"include_channels", "debug"},
     {"include_streams"}, {"include_all", "wait"}}

InitLayoutWalk ==
    \E l \in Layouts, S \in LayoutArgs, fault \in BOOLEAN :
        /\ fault => l.len >= acl_base_len /\ l.len < acl_len
        /\ args = ArgsOf(S)
        /\ svc = Service(<<<<2>>, <<3>>, <<>>>>, Bases(3, kAudioObjectClassID),
                         Classes(3, kAudioDeviceClassID, kAudioStreamClassID),
                         {},
                         IF layout_asserts(l) \/ fault THEN {LayoutRead} ELSE {})
        /\ acl = [phase |-> "data", data |-> l]
        /\ pc = "start"
        /\ opt = Empty
        /\ passes = 0
        /\ stack = <<>>
        /\ tree = <<>>
        /\ path = <<>>
        /\ out = <<>>
        /\ lst = [phase |-> "none"]
        /\ str = [phase |-> "none"]

SpecLayoutWalk == InitLayoutWalk /\ [][Next]_vars

(***************************************************************************)
(* Walks over graphs in which an object is owned more than once.  Object 2 *)
(* is a device, a box or a stream, the other objects are streams; the      *)
(* arguments skip boxes and streams, boxes alone, or nothing.              *)
(***************************************************************************)
SharedArgs ==
    {{}, {"include_streams"}, {"include_boxes", "include_streams"},
     {"include_all", "wait"}}

InitShared ==
    \E g \in OwnedGraphs(FilterObjs),
       c2 \in {kAudioDeviceClassID, kAudioBoxClassID, kAudioStreamClassID},
       S \in SharedArgs,
       f \in {{}, {<<2, "OwnedObjects">>}, {<<2, "Class">>}} :
        Start(ArgsOf(S),
              Service(g, Bases(FilterObjs, kAudioObjectClassID),
                      Classes(FilterObjs, c2, kAudioStreamClassID),
                      f, {}))

SpecShared == InitShared /\ [][Next]_vars

(***************************************************************************)
(* What the claims speak of.                                               *)
(***************************************************************************)
Range(s) == {s[i] : i \in 1..Len(s)}

\* the nodes of a tree that are branches, and the objects they stand for
BranchNodes(t) == {i \in 1..Len(t) : t[i].kind = "branch"}

BranchObjs(t) == {t[i].obj : i \in BranchNodes(t)}

\* the leaves added to branch i of tree t with label l
LeavesAt(t, i, l) ==
    {j \in 1..Len(t) : t[j].kind = "leaf" /\ t[j].parent = i /\ t[j].label = l}

\* the option that admits objects of class c, 0 when the class is not one
\* of the filtered ones
ClassOption(c) ==
    CASE c = kAudioBoxClassID -> INCLUDE_BOXES
      [] c = kAudioClockDeviceClassID -> INCLUDE_CLOCKS
      [] c = kAudioStreamClassID -> INCLUDE_STREAMS
      [] c = kAudioPlugInClassID -> INCLUDE_PLUGINS
      [] c = kAudioProcessClassID -> INCLUDE_PROCESSES
      [] OTHER -> 0

OptionSet(b, f) == (b \div f) % 2 = 1

ClassReadFails(o) == <<o, "Class">> \in svc.fail

BaseReadFails(o) == <<o, "BaseClass">> \in svc.fail

\* object o is of a filtered class, or of a control base class, whose option
\* is unset in b
ClassFilteredOut(o, b) ==
    /\ ~ClassReadFails(o)
    /\ ClassOption(svc.class[o]) # 0
    /\ ~OptionSet(b, ClassOption(svc.class[o]))

BaseFilteredOut(o, b) ==
    /\ ~BaseReadFails(o)
    /\ svc.base[o] \in ControlBaseClasses
    /\ ~OptionSet(b, INCLUDE_CONTROLS)

FilteredOut(o, b) == ClassFilteredOut(o, b) \/ BaseFilteredOut(o, b)

\* the objects the service lists as owned by o, none when the read fails
Kids(o) ==
    IF <<o, "OwnedObjects">> \in svc.fail THEN {} ELSE Range(svc.owned[o])

\* the objects reached from the system object along owned-objects lists
\* through objects that are not filtered out
RECURSIVE ReachFrom(_, _)
ReachFrom(S, b) ==
    LET T == S \cup {c \in Objects :
                       ~FilteredOut(c, b) /\ \E o \in S : c \in Kids(o)}
    IN  IF T = S THEN S ELSE ReachFrom(T, b)

Emittable(b) ==
    IF FilteredOut(kAudioObjectSystemObject, b) THEN {}
    ELSE ReachFrom({kAudioObjectSystemObject}, b)

\* the walk of a pass has returned and its tree has been flushed
Flushed == pc \in {"run", "exit"} /\ out # <<>>

LastOut == out[Len(out)]

(***************************************************************************)
(* C1  Filter correctness of traverse_obj.  An object of class box, clock  *)
(* device, stream, plug-in or process, or of one of the six control base   *)
(* classes, whose option is unset gets no branch, and nothing is walked    *)
(* through it: at every moment the objects that have a branch are among    *)
(* those reached from the system object through objects that are not       *)
(* filtered out, and no branch is nested under anything but the branch of  *)
(* an owner.  With the option set, and no other rule skipping it, an       *)
(* object that is reached has its branch in the flushed tree: the objects  *)
(* of the flushed tree are exactly the reached ones.                       *)
(***************************************************************************)
C1_FilterCorrect ==
    /\ pc \in {"walk", "run", "exit", "done"} =>
          /\ BranchObjs(tree) \subseteq Emittable(opt)
          /\ \A i \in BranchNodes(tree) :
                /\ ~FilteredOut(tree[i].obj, opt)
                /\ tree[i].parent # 0 =>
                      /\ tree[tree[i].parent].kind = "branch"
                      /\ tree[i].obj \in Kids(tree[tree[i].parent].obj)
    /\ Flushed => BranchObjs(LastOut) = Emittable(opt)

\* a pass has been flushed in which object 2, whose option is unset, owns
\* object 3, a stream admitted by its option, and only the system object
\* has a branch
C1_Witness ==
    /\ Flushed
    /\ FilteredOut(2, opt)
    /\ 3 \in Kids(2)
    /\ ~FilteredOut(3, opt)
    /\ BranchObjs(LastOut) = {kAudioObjectSystemObject}

(***************************************************************************)
(* C2  A failed Class or BaseClass read never causes an object to be       *)
(* skipped.  For every options value, an object whose Class read fails is  *)
(* skipped by none of the five class rules and an object whose BaseClass   *)
(* read fails is not skipped by the control rule; so in a flushed tree     *)
(* every object with a failed read that is called (the system object, or   *)
(* an object owned by one that has a branch) and that no rule on its       *)
(* other read skips has its branch, and the objects it owns are walked:    *)
(* those that are not filtered out have their branches too.  (The          *)
(* service's answers do not change: the rules are examined under every     *)
(* options value once per run, at its start.)                              *)
(***************************************************************************)
OptionValues == 0..(2 * DEBUG - 1)

C2_FailedReadNotSkipped ==
    /\ \A o \in {x \in Objects : pc = "start"}, b \in OptionValues :
          /\ ClassReadFails(o) =>
                /\ ~SkipBoxes(get_class(o), b)
                /\ ~SkipClocks(get_class(o), b)
                /\ ~SkipStreams(get_class(o), b)
                /\ ~SkipPlugins(get_class(o), b)
                /\ ~SkipProcesses(get_class(o), b)
          /\ BaseReadFails(o) => ~SkipControls(get_base_class(o), b)
          /\ ClassReadFails(o) /\ BaseReadFails(o) =>
                ~Skipped(get_base_class(o), get_class(o), b)
    /\ Flushed =>
          \A o \in Objects :
             /\ ClassReadFails(o) \/ BaseReadFails(o)
             /\ \/ o = kAudioObjectSystemObject
                \/ \E p \in BranchObjs(LastOut) : o \in Kids(p)
             /\ ~FilteredOut(o, opt)
             => /\ o \in BranchObjs(LastOut)
                /\ \A c \in Kids(o) :
                      ~FilteredOut(c, opt) => c \in BranchObjs(LastOut)

\* a pass has been flushed, with only the streams included, in which object 2,
\* whose Class and BaseClass reads both fail, has a branch and so has
\* object 3, which it owns
C2_Witness ==
    /\ Flushed
    /\ opt = INCLUDE_STREAMS
    /\ ClassReadFails(2)
    /\ BaseReadFails(2)
    /\ 3 \in Kids(2)
    /\ {2, 3} \subseteq BranchObjs(LastOut)

(***************************************************************************)
(* C3  Debug-mode completeness.  In a flushed tree, for every read made    *)
(* through prop! for an object that has a branch (the common properties,   *)
(* then those of its class): when the fetch fails, the branch holds one    *)
(* leaf with the read's label and the error status if DEBUG is set and no  *)
(* leaf for it if DEBUG is unset; when the fetch succeeds it holds one     *)
(* leaf with the value in both modes.  (A label read twice for one object, *)
(* as DeviceUID is for a device, has one leaf per read.)  No other leaf    *)
(* but BaseClass and Class is in the branch.                               *)
(***************************************************************************)
ReadsOf(o, b) == common_properties \o class_properties(get_class(o), b)

FetchFails(o, l) == <<o, l>> \in svc.fail

C3_DebugCompleteness ==
    Flushed =>
      \A i \in BranchNodes(LastOut) :
        LET o == LastOut[i].obj
            rds == ReadsOf(o, opt)
            labels == {rds[k].label : k \in 1..Len(rds)}
            count(l) == Cardinality({k \in 1..Len(rds) : rds[k].label = l})
            leaves == {j \in 1..Len(LastOut) :
                         LastOut[j].kind = "leaf" /\ LastOut[j].parent = i}
        IN  /\ \A l \in labels :
                 LET ls == {j \in leaves : LastOut[j].label = l}
                 IN  IF FetchFails(o, l)
                     THEN IF OptionSet(opt, DEBUG)
                          THEN /\ Cardinality(ls) = count(l)
                               /\ \A j \in ls : LastOut[j].form = "Err"
                          ELSE ls = {}
                     ELSE /\ Cardinality(ls) = count(l)
                          /\ \A j \in ls :
                                LastOut[j].form =
                                   IF OptionSet(opt, DEBUG) THEN "Ok" ELSE "value"
            /\ \A j \in leaves :
                 LastOut[j].label \in labels \cup {"BaseClass", "Class"}

\* a debug pass has been flushed in which the Name read of object 2 failed
\* and its branch holds the leaf of Name with the error
C3_Witness ==
    /\ Flushed
    /\ OptionSet(opt, DEBUG)
    /\ FetchFails(2, "Name")
    /\ \E i \in BranchNodes(LastOut) :
          /\ LastOut[i].obj = 2
          /\ \E j \in LeavesAt(LastOut, i, "Name") : LastOut[j].form = "Err"

(***************************************************************************)
(* C4  In non-debug mode a failed BaseClass or Class read of a visited     *)
(* object is omitted from the report: the branch of the object holds no    *)
(* BaseClass (Class) leaf when that read returned an error status and      *)
(* DEBUG is unset.                                                         *)
(***************************************************************************)
C4_ClassErrorOmitted ==
    Flushed /\ ~OptionSet(opt, DEBUG) =>
      \A i \in BranchNodes(LastOut) :
         /\ BaseReadFails(LastOut[i].obj) =>
               LeavesAt(LastOut, i, "BaseClass") = {}
         /\ ClassReadFails(LastOut[i].obj) =>
               LeavesAt(LastOut, i, "Class") = {}

(***************************************************************************)
(* C5  A read made through prop! that returns an error status is non-fatal *)
(* and independent.  Whatever reads of that kind fail: the walk is not     *)
(* aborted by them (it is aborted only where a read answered with status 0 *)
(* fails an assertion); every read of the same object that succeeds has    *)
(* its leaf, the later ones too; and the branches of the flushed tree and  *)
(* their nesting are those of the recursion over the owned-objects lists   *)
(* and the filter alone, in which no outcome of such a read appears.       *)
(***************************************************************************)
KidsSeq(o) ==
    IF <<o, "OwnedObjects">> \in svc.fail THEN <<>> ELSE svc.owned[o]

\* the branches of the walk from object o under the branch numbered p, in
\* the order they are opened, each with the number of the branch above it
RECURSIVE RefWalk(_, _, _, _), RefKids(_, _, _, _)
RefWalk(o, p, acc, b) ==
    IF FilteredOut(o, b) THEN acc
    ELSE RefKids(KidsSeq(o), Len(acc) + 1, Append(acc, [obj |-> o, parent |-> p]), b)

RefKids(ks, p, acc, b) ==
    IF ks = <<>> THEN acc
    ELSE RefKids(Tail(ks), p, RefWalk(Head(ks), p, acc, b), b)

\* the branches of tree t in the order they were opened, each with the
\* number of the branch it is nested in (0 at the top, -1 under a leaf)
Skeleton(t) ==
    LET idx == Sorted(BranchNodes(t))
        Ord(i) == Cardinality({j \in BranchNodes(t) : j <= i})
    IN  [k \in 1..Len(idx) |->
            [obj |-> t[idx[k]].obj,
             parent |-> IF t[idx[k]].parent = 0 THEN 0
                        ELSE IF t[idx[k]].parent \in BranchNodes(t)
                        THEN Ord(t[idx[k]].parent) ELSE -1]]

WalkAborted == pc = "panicked" /\ Len(out) < passes

C5_ErrorsNonFatal ==
    /\ WalkAborted => \E x \in svc.bad : x \notin svc.fail
    /\ Flushed =>
          /\ Skeleton(LastOut) = RefWalk(kAudioObjectSystemObject, 0, <<>>, opt)
          /\ \A i \in BranchNodes(LastOut) :
                LET rds == ReadsOf(LastOut[i].obj, opt)
                    got == {LastOut[j].label : j \in
                              {n \in 1..Len(LastOut) : LastOut[n].parent = i}}
                IN  \A k \in 1..Len(rds) :
                       ~FetchFails(LastOut[i].obj, rds[k].label)
                       => rds[k].label \in got

\* a pass without debug mode has been flushed in which every property read
\* of object 2, a device, failed but its last, and object 3, which it owns,
\* has its branch under that of object 2
C5_Witness ==
    /\ Flushed
    /\ ~OptionSet(opt, DEBUG)
    /\ svc.class[2] = kAudioDeviceClassID
    /\ svc.fail = {2} \X LabelsOf(kAudioDeviceClassID)
    /\ Skeleton(LastOut) =
          <<[obj |-> 1, parent |-> 0], [obj |-> 2, parent |-> 1],
            [obj |-> 3, parent |-> 2]>>

(***************************************************************************)
(* C6  Tree nesting matches recursion.  While a pass runs, the open        *)
(* branches are those of the active calls of traverse_obj that have        *)
(* opened one, innermost last and each nested in the one before it, so     *)
(* that the current insertion target is the branch of the innermost such   *)
(* call and is the caller's again once a call has returned; every leaf is  *)
(* in a branch, and every branch but the first is nested directly in a     *)
(* branch of an object that owns its object.  In the flushed tree the      *)
(* branches and their nesting are exactly the calls of the recursion:      *)
(* each object's branch is a direct child of the branch of the call that   *)
(* walked its owner, and the children of one owner are siblings.           *)
(***************************************************************************)
WellNested(t) ==
    \A i \in 1..Len(t) :
       IF t[i].parent = 0
       THEN i = 1 /\ t[i].kind = "branch" /\ t[i].obj = kAudioObjectSystemObject
       ELSE /\ t[i].parent < i
            /\ t[t[i].parent].kind = "branch"
            /\ t[i].kind = "branch" => t[i].obj \in Kids(t[t[i].parent].obj)

OpenBranchesAreActiveCalls ==
    LET active == {k \in 1..Len(stack) : stack[k].phase = "kids"}
    IN  /\ active = 1..Len(path)
        /\ \A k \in 1..Len(stack) : k < Len(stack) => k \in active
        /\ \A k \in 1..Len(path) :
              /\ path[k] \in BranchNodes(tree)
              /\ tree[path[k]].obj = stack[k].obj
              /\ tree[path[k]].parent = IF k = 1 THEN 0 ELSE path[k - 1]

C6_NestingMatchesRecursion ==
    /\ pc \in {"walk", "overflow", "run", "exit", "done"} =>
          /\ WellNested(tree)
          /\ OpenBranchesAreActiveCalls
    /\ Flushed =>
          /\ WellNested(LastOut)
          /\ Skeleton(LastOut) = RefWalk(kAudioObjectSystemObject, 0, <<>>, opt)

\* a flushed tree in which a branch (A) under the first holds a branch
\* (the grandchild) and a later branch (B) is again directly under the first
C6_Witness ==
    /\ Flushed
    /\ \E a, g, b \in BranchNodes(LastOut) :
          /\ a < g /\ g < b
          /\ LastOut[a].parent = 1
          /\ LastOut[g].parent = a
          /\ LastOut[b].parent = 1

(***************************************************************************)
(* C8  Idempotence of traversal passes.  The passes of one run, made with  *)
(* the same options over the unchanged answers of the service, flush       *)
(* identical trees; the accumulator is empty whenever a pass is about to   *)
(* start, so nothing of an earlier pass is left in a later one.            *)
(***************************************************************************)
C8_PassesIdempotent ==
    /\ \A k \in 1..Len(out) : out[k] = out[1]
    /\ pc = "run" => tree = <<>> /\ path = <<>>
    /\ pc = "walk" /\ stack = <<Call(kAudioObjectSystemObject)>> => tree = <<>>

\* two passes have been flushed, each with the branches of several objects
C8_Witness ==
    /\ pc = "run"
    /\ Len(out) = 2
    /\ Cardinality(BranchNodes(out[2])) > 2

(***************************************************************************)
(* C9  Flush ordering.  In each pass the tree is flushed once, after the   *)
(* walk from the system object has returned: while a call of traverse_obj  *)
(* is active or a branch is open the pass has not been flushed, a flush    *)
(* happens only with no call active and no branch open, it flushes the     *)
(* whole accumulated tree, and when the pass is over the number of flushes *)
(* equals the number of passes.                                            *)
(***************************************************************************)
FlushCountMatchesPasses ==
    /\ pc = "walk" => Len(out) = passes - 1
    /\ pc \in {"run", "exit", "done"} => Len(out) = passes
    /\ stack # <<>> \/ path # <<>> =>
          pc \in {"walk", "overflow"} /\ Len(out) = passes - 1

FlushAfterWalk ==
    out' # out =>
       /\ stack = <<>>
       /\ path = <<>>
       /\ out' = Append(out, tree)
       /\ Len(out') = passes

C9_FlushOrdering == [](FlushCountMatchesPasses) /\ [][FlushAfterWalk]_vars

\* the only pass of a run without wait mode has been flushed, with the
\* branches of several objects in its tree
C9_Witness ==
    /\ pc = "exit"
    /\ ~args.wait
    /\ passes = 1
    /\ Len(out) = 1
    /\ Cardinality(BranchNodes(out[1])) > 2

(***************************************************************************)
(* C10  Include-all preset.  After the preset has been applied (all bits,  *)
(* then DEBUG removed) the options have the eight INCLUDE_* bits set and   *)
(* DEBUG clear, whatever the options were before: those that main built    *)
(* from the other arguments, and any other value.                          *)
(***************************************************************************)
IncludeBits ==
    {INCLUDE_BOXES, INCLUDE_CLOCKS, INCLUDE_STREAMS, INCLUDE_FORMATS,
     INCLUDE_CHANNELS, INCLUDE_CONTROLS, INCLUDE_PLUGINS, INCLUDE_PROCESSES}

IsPreset(b) ==
    /\ \A f \in IncludeBits : OptionSet(b, f)
    /\ ~OptionSet(b, DEBUG)

C10_IncludeAllPreset ==
    /\ pc = "debug" /\ args.include_all => IsPreset(opt)
    /\ pc = "include_all" /\ args.include_all =>
          \A b \in OptionValues : IsPreset(include_all(args, b))

\* the preset has been applied to options that had neither all the class
\* bits set nor, the debug argument being given, would keep DEBUG clear
C10_Witness ==
    /\ pc = "debug"
    /\ args.include_all
    /\ ~args.include_boxes
    /\ IsPreset(opt)

(***************************************************************************)
(* C7  List decoding in get_list_property_scoped.  As claimed: when the    *)
(* size query succeeds reporting N times the element size and the data     *)
(* fetch succeeds, the result is Ok with a list of exactly N elements;     *)
(* when the size query reports 0 bytes the result is an empty list and     *)
(* not an error.                                                           *)
(***************************************************************************)
Returned == lst.phase = "returned"

ReportsElements(n) == lst.q_status = 0 /\ lst.q_size = n * lst.elem

C7_ListDecoding_AsClaimed ==
    Returned =>
      /\ \A n \in 0..MaxBytes :
            ReportsElements(n) /\ lst.f_status = 0
            => lst.ret.ok /\ lst.ret.v = n
      /\ lst.q_status = 0 /\ lst.q_size = 0 => lst.ret.ok /\ lst.ret.v = 0

(***************************************************************************)
(* C7, amended.  When the size query succeeds reporting N times the        *)
(* element size and the data fetch succeeds, the result is Ok with a list  *)
(* of exactly N elements; when the size query reports 0 bytes and the      *)
(* data fetch succeeds the result is an empty list and not an error (the   *)
(* data fetch is made for 0 bytes too, and its error status is returned).  *)
(***************************************************************************)
C7_ListDecoding ==
    Returned =>
      /\ \A n \in 0..MaxBytes :
            ReportsElements(n) /\ lst.f_status = 0
            => lst.ret.ok /\ lst.ret.v = n
      /\ lst.q_status = 0 /\ lst.q_size = 0 /\ lst.f_status = 0
            => lst.ret.ok /\ lst.ret.v = 0
      /\ lst.q_status = 0 /\ lst.q_size = 0 /\ lst.f_status # 0
            => ~lst.ret.ok /\ lst.ret.v = lst.f_status

\* a read of 4-byte elements has returned two of them for a size of 8 bytes
C7_Witness ==
    /\ Returned
    /\ lst.elem = 4
    /\ ReportsElements(2)
    /\ lst.f_status = 0
    /\ lst.ret.ok
    /\ lst.ret.v = 2


(***************************************************************************)
(* C11  Include-all forces debug mode off.  For every combination of the   *)
(* other arguments, the debug argument included, when include_all is       *)
(* given the options handed to traverse_with_options have DEBUG clear.     *)
(***************************************************************************)
C11_IncludeAllForcesDebugOff ==
    passes >= 1 /\ args.include_all => ~OptionSet(opt, DEBUG)


(***************************************************************************)
(* C12  Text-handle release.  Every text handle get_string_property        *)
(* obtains from the service is released exactly once before the call is    *)
(* over, on every exit path (text decoded, empty text, decoding failure):  *)
(* no handle is ever released twice, and no handle is outstanding between  *)
(* two reads or after the last one.                                        *)
(***************************************************************************)
Obtained == 1..Len(str.texts)

Outstanding == {h \in Obtained : str.released[h] = 0}

C12_TextHandleReleased ==
    pc \in {"string", "panicked"} /\ str.phase # "none" =>
       /\ \A h \in Obtained : str.released[h] <= 1
       /\ Outstanding \subseteq {str.handle}
       /\ str.phase \in {"call", "returned"} => Outstanding = {}

\* three reads are over, one that gave a text, one that gave an empty text
\* and one whose decoding failed, each handle released
C12_Witness ==
    /\ str.phase = "returned"
    /\ pc = "panicked"
    /\ Len(str.texts) = 3
    /\ \E a, b, c \in Obtained :
          /\ str.texts[a] = "text"
          /\ str.texts[b] = "empty"
          /\ str.texts[c] = "not_utf8"
    /\ \A h \in Obtained : str.released[h] = 1


(***************************************************************************)
(* C13  Channel-layout expansion.  For every byte buffer of length header  *)
(* size + k * description size passed to expand_channel_layout, the        *)
(* result holds exactly k channel descriptions and its declared channel    *)
(* count (mNumberChannelDescriptions) equals k.                            *)
(***************************************************************************)
C13_LayoutExpansion ==
    acl.phase = "returned" =>
       \A k \in 0..MaxChannels :
          acl.data.len = acl_base_len + k * acd_len
          => /\ acl.ret.mChannelDescriptions = k
             /\ acl.ret.mNumberChannelDescriptions = k


(***************************************************************************)
(* C14  The walk emits in pre-order.  The nodes of the tree are numbered   *)
(* in the order they are emitted.  For each visited object the branch is   *)
(* opened, then come its BaseClass and Class leaves, the leaves of the     *)
(* common properties and those of the class-specific properties, in that   *)
(* order and before any branch of a child; the branches of the children    *)
(* follow in the order of the owned-objects list the service returned      *)
(* (the children the filter skips left out), and the whole subtree of a    *)
(* child is emitted before the branch of the next child is opened.         *)
(***************************************************************************)
RECURSIVE Descends(_, _, _)
Descends(t, k, a) ==
    \/ k = a
    \/ t[k].parent # 0 /\ Descends(t, t[k].parent, a)

\* every node emitted between a branch and one of its children belongs to
\* the subtree of that branch: subtrees are emitted whole, one after another
SubtreesWhole(t) ==
    \A j \in 1..Len(t) :
       t[j].parent # 0 =>
          /\ t[j].parent < j
          /\ \A k \in (t[j].parent + 1)..(j - 1) : Descends(t, k, t[j].parent)

\* while the tree grows: each node is emitted under the node emitted just
\* before it or under one of the branches that node lies in, so a node is
\* never added to a subtree that was left
EmittedInside(t) ==
    \A j \in 2..Len(t) :
       t[j].parent # 0 =>
          /\ t[j].parent < j
          /\ Descends(t, j - 1, t[j].parent)

\* the leaves of a branch are emitted before the branches of its children
OwnLeavesFirst(t) ==
    \A c \in BranchNodes(t) :
       \A j \in (c + 1)..Len(t) :
          ~(t[j].kind = "leaf" /\ t[j].parent = t[c].parent)

LeafLabels(t, i) ==
    LET ls == SelectSeq(t, LAMBDA n : n.kind = "leaf" /\ n.parent = i)
    IN  [k \in 1..Len(ls) |-> ls[k].label]

ChildObjs(t, i) ==
    LET bs == SelectSeq(t, LAMBDA n : n.kind = "branch" /\ n.parent = i)
    IN  [k \in 1..Len(bs) |-> bs[k].obj]

\* the labels of the leaves of object o under options b, in the order of
\* the reads: a read has a leaf when it succeeds or in debug mode
ExpectedLabels(o, b) ==
    LET rds == SelectSeq(ReadsOf(o, b),
                         LAMBDA rd : OptionSet(b, DEBUG) \/ ~FetchFails(o, rd.label))
    IN  <<"BaseClass", "Class">> \o [k \in 1..Len(rds) |-> rds[k].label]

ExpectedChildren(o, b) ==
    SelectSeq(KidsSeq(o), LAMBDA c : ~FilteredOut(c, b))

C14_PreOrder ==
    /\ pc \in {"walk", "overflow"} =>
          EmittedInside(tree) /\ OwnLeavesFirst(tree)
    /\ Flushed =>
          /\ SubtreesWhole(LastOut)
          /\ OwnLeavesFirst(LastOut)
          /\ \A i \in BranchNodes(LastOut) :
                /\ LeafLabels(LastOut, i) = ExpectedLabels(LastOut[i].obj, opt)
                /\ ChildObjs(LastOut, i) = ExpectedChildren(LastOut[i].obj, opt)

\* a flushed tree of an object whose owned-objects list is not in the order
\* of the ids and whose first child has a child of its own
C14_Witness ==
    /\ Flushed
    /\ \E i \in BranchNodes(LastOut) :
          LET ks == ChildObjs(LastOut, i)
          IN  /\ Len(ks) >= 3
              /\ ks[3] < ks[2]
              /\ \E g \in BranchNodes(LastOut) :
                    /\ LastOut[g].parent # i
                    /\ LastOut[g].parent # 0
                    /\ LastOut[LastOut[g].parent].parent = i
                    /\ LastOut[LastOut[g].parent].obj = ks[1]


(***************************************************************************)
(* C15  Termination.  When the owned-objects graph is acyclic, under every *)
(* options value and every pattern of error statuses on the reads, a pass  *)
(* visits finitely many objects (the recursion is never deeper than the    *)
(* number of objects and never exhausts the stack), returns from the       *)
(* recursion and reaches the flush.                                        *)
(***************************************************************************)
\* the objects reached from those of S along the owned-objects lists as the
\* service holds them
RECURSIVE OwnedBelow(_)
OwnedBelow(S) ==
    LET T == S \cup {c \in Objects : \E o \in S : c \in Range(svc.owned[o])}
    IN  IF T = S THEN S ELSE OwnedBelow(T)

Acyclic == \A o \in Objects : o \notin OwnedBelow(Range(svc.owned[o]))

PassOver == pc \in {"run", "exit"} /\ stack = <<>> /\ Len(out) = passes

C15_Termination ==
    /\ [](Acyclic => pc # "overflow" /\ Len(stack) <= Cardinality(Objects))
    /\ (pc = "walk" /\ Acyclic) ~> PassOver

\* a pass over an acyclic graph in which object 2 owns object 3 is over,
\* with every read of every object answered by an error status
C15_Witness ==
    /\ Acyclic
    /\ PassOver
    /\ passes >= 1
    /\ svc.owned[2] # <<>>
    /\ \A o \in Objects : <<o, "Class">> \in svc.fail
    /\ kAudioObjectSystemObject \in BranchObjs(LastOut)

(***************************************************************************)
(* C16  No cycle defence.  When the owned-objects relation has a cycle     *)
(* that the walk reaches from the system object through objects the        *)
(* filter does not skip, the walk re-enters an object that is already on   *)
(* the current recursion path, and the pass never reaches the flush.       *)
(***************************************************************************)
\* the objects the walk reaches from those of S: owned-objects lists that
\* are read, objects that are not filtered out
RECURSIVE WalkedBelow(_, _)
WalkedBelow(S, b) ==
    LET T == S \cup {c \in Objects :
                       ~FilteredOut(c, b) /\ \E o \in S : c \in Kids(o)}
    IN  IF T = S THEN S ELSE WalkedBelow(T, b)

CycleWalked(b) ==
    \E o \in Emittable(b) :
       o \in WalkedBelow({c \in Kids(o) : ~FilteredOut(c, b)}, b)

ReEntered ==
    \E i, j \in 1..Len(stack) : i < j /\ stack[i].obj = stack[j].obj

C16_NoCycleDefence ==
    /\ [](pc \in {"walk", "overflow", "run", "exit", "done"} /\ CycleWalked(opt)
            => out = <<>>)
    /\ (pc = "walk" /\ CycleWalked(opt)) ~> ReEntered

\* the walk is inside a cycle through object 2 and object 3, object 2 being
\* on the recursion path twice
C16_Witness ==
    /\ pc = "walk"
    /\ CycleWalked(opt)
    /\ \E i, j, k \in 1..Len(stack) :
          /\ i < j /\ j < k
          /\ stack[i].obj = 2
          /\ stack[j].obj = 3
          /\ stack[k].obj = 2


(***************************************************************************)
(* C17  A failed OwnedObjects read means no children, silently.  When the  *)
(* OwnedObjects read of a walked object fails, its branch and its leaves   *)
(* are emitted as they would be otherwise, no child of it is visited from  *)
(* it, and no leaf reports the failure, with or without debug mode.        *)
(***************************************************************************)
OwnedReadFails(o) == <<o, "OwnedObjects">> \in svc.fail

Labels(rds) == [k \in 1..Len(rds) |-> rds[k].label]

\* the leaves of branch i that follow BaseClass, Class and the leaves of
\* the common properties
ClassLeaves(t, i) ==
    LET ls == LeafLabels(t, i)
        n  == 2 + Len(SelectSeq(common_properties,
                                LAMBDA rd : OptionSet(opt, DEBUG)
                                            \/ ~FetchFails(t[i].obj, rd.label)))
    IN  SubSeq(ls, n + 1, Len(ls))

ClaimedSet(o, b) ==
    IF ClassReadFails(o) THEN <<>>
    ELSE CASE svc.class[o] = kAudioSystemObjectClassID -> traverse_hw
           [] svc.class[o] = kAudioAggregateDeviceClassID ->
                 traverse_aggregate_device \o traverse_device(b)
           [] svc.class[o] = kAudioDeviceClassID -> traverse_device(b)
           [] svc.class[o] = kAudioStreamClassID -> traverse_stream(b)
           [] svc.class[o] = kAudioProcessClassID -> traverse_process
           [] OTHER -> <<>>

C18_ClassDispatch_AsClaimed ==
    Flushed =>
      \A i \in BranchNodes(LastOut) :
         ClassLeaves(LastOut, i) = Labels(ClaimedSet(LastOut[i].obj, opt))

(***************************************************************************)
(* C18, amended.  Class-specific leaves are emitted only for objects whose *)
(* exact Class is system object (the hardware-wide set), aggregate device  *)
(* (the aggregate set followed by the device set), device or sub-device    *)
(* (the device set), stream (the stream set) or process (the process       *)
(* set); an object of any other class, or whose Class read failed, gets    *)
(* no class-specific leaves.                                               *)
(***************************************************************************)
DispatchedSet(o, b) ==
    IF ~ClassReadFails(o) /\ svc.class[o] = kAudioSubDeviceClassID
    THEN traverse_device(b)
    ELSE ClaimedSet(o, b)

C18_ClassDispatch ==
    Flushed =>
      \A i \in BranchNodes(LastOut) :
         ClassLeaves(LastOut, i) = Labels(DispatchedSet(LastOut[i].obj, opt))

\* a flushed tree with the branch of a sub-device, which has the leaves of
\* the device set
C18_Witness ==
    /\ Flushed
    /\ \E i \in BranchNodes(LastOut) :
          /\ LastOut[i].obj = 2
          /\ ~ClassReadFails(2)
          /\ svc.class[2] = kAudioSubDeviceClassID
          /\ ClassLeaves(LastOut, i) = Labels(traverse_device(opt))
          /\ Len(ClassLeaves(LastOut, i)) > 20


(***************************************************************************)
(* C19  Verbose-field gating.  The available nominal sample rates of a     *)
(* device and the available virtual and physical formats of a stream are   *)
(* read and reported only when INCLUDE_FORMATS is set, the expanded        *)
(* preferred channel layout of a device only when INCLUDE_CHANNELS is      *)
(* set: with the option unset the read is not made and the object has no   *)
(* leaf for it, not even an error leaf in debug mode; with the option set  *)
(* the read is made and has its leaf like any other read.                  *)
(***************************************************************************)
FormatsLabels ==
    {"AvailableNominalSampleRates", "AvailableVirtualFormats",
     "AvailablePhysicalFormats"}

ChannelsLabels == {"Output PreferredChannelLayout"}

\* the option that gates the read labelled l, 0 when none does
GateOf(l) ==
    IF l \in FormatsLabels THEN INCLUDE_FORMATS
    ELSE IF l \in ChannelsLabels THEN INCLUDE_CHANNELS
    ELSE 0

C19_VerboseGating ==
    Flushed =>
      \A i \in BranchNodes(LastOut) :
         LET o  == LastOut[i].obj
             ls == Range(Labels(ReadsOf(o, opt)))
         IN  \A l \in FormatsLabels \cup ChannelsLabels :
                IF OptionSet(opt, GateOf(l))
                THEN /\ l \in ls <=> l \in LabelsOf(svc.class[o]) /\ ~ClassReadFails(o)
                     /\ l \in ls =>
                          Cardinality(LeavesAt(LastOut, i, l))
                            = IF OptionSet(opt, DEBUG) \/ ~FetchFails(o, l)
                              THEN 1 ELSE 0
                ELSE /\ l \notin ls
                     /\ LeavesAt(LastOut, i, l) = {}

\* in debug mode with INCLUDE_CHANNELS and without INCLUDE_FORMATS, every
\* read of the device fails: its branch has the error leaves of the nominal
\* sample rate and of the channel layout, none for the available rates
C19_Witness ==
    /\ Flushed
    /\ OptionSet(opt, DEBUG)
    /\ OptionSet(opt, INCLUDE_CHANNELS)
    /\ ~OptionSet(opt, INCLUDE_FORMATS)
    /\ FetchFails(2, "AvailableNominalSampleRates")
    /\ \E i \in BranchNodes(LastOut) :
          /\ LastOut[i].obj = 2
          /\ LeavesAt(LastOut, i, "NominalSampleRate") # {}
          /\ LeavesAt(LastOut, i, "Output PreferredChannelLayout") # {}
          /\ LeavesAt(LastOut, i, "AvailableNominalSampleRates") = {}


(***************************************************************************)
(* C20  A short channel layout is not fatal.  With INCLUDE_CHANNELS set, a *)
(* preferred-channel-layout read that succeeds with fewer bytes than the   *)
(* fixed layout header, zero bytes included, does not abort the pass: the  *)
(* remaining properties of the device are read, its children and the rest  *)
(* of the graph are walked, and the pass reaches the flush.                *)
(***************************************************************************)
ShortLayoutRead ==
    /\ acl.phase = "data"
    /\ acl.data.len < acl_base_len
    /\ OptionSet(opt, INCLUDE_CHANNELS)
    /\ ~FetchFails(LayoutRead[1], LayoutRead[2])

C20_ShortLayoutNonFatal ==
    ShortLayoutRead =>
       /\ ~WalkAborted
       /\ Flushed =>
             \E i \in BranchNodes(LastOut) :
                /\ LastOut[i].obj = LayoutRead[1]
                /\ LeavesAt(LastOut, i, "Input ProcessMute") # {}
                /\ ChildObjs(LastOut, i) = ExpectedChildren(LayoutRead[1], opt)


(***************************************************************************)
(* C21  No visited-set deduplication.  In one pass over an acyclic graph   *)
(* an object is walked once for each of its occurrences in the owned-      *)
(* objects lists of the visited objects: the number of branches the        *)
(* flushed tree has for an object is the number of ownership paths from    *)
(* the system object to it on which the filter skips no object.  The       *)
(* paths run along the lists the service returned, an entry listed twice   *)
(* counting twice; while the pass runs the tree never has more branches    *)
(* for an object than that.                                                *)
(***************************************************************************)
RECURSIVE OwnershipPaths(_, _, _, _), PathsThrough(_, _, _, _, _)
\* the number of such paths from object a to object o, of at most n objects
OwnershipPaths(a, o, b, n) ==
    IF n = 0 \/ FilteredOut(a, b)
    THEN 0
    ELSE (IF a = o THEN 1 ELSE 0) + PathsThrough(KidsSeq(a), 1, o, b, n - 1)

\* those that start with one of the entries k, k + 1, ... of the list ks
PathsThrough(ks, k, o, b, n) ==
    IF k > Len(ks)
    THEN 0
    ELSE OwnershipPaths(ks[k], o, b, n) + PathsThrough(ks, k + 1, o, b, n)

BranchesOf(t, o) == Cardinality({i \in BranchNodes(t) : t[i].obj = o})

PathsTo(o) ==
    OwnershipPaths(kAudioObjectSystemObject, o, opt, Cardinality(Objects))

C21_NoDeduplication ==
    Acyclic =>
       /\ Flushed => \A o \in Objects : BranchesOf(LastOut, o) = PathsTo(o)
       /\ pc = "walk" => \A o \in Objects : BranchesOf(tree, o) <= PathsTo(o)

\* a flushed tree over an acyclic graph with two branches for an object that
\* two different visited objects own
C21_Witness ==
    /\ Acyclic
    /\ Flushed
    /\ \E o \in Objects :
          /\ BranchesOf(LastOut, o) = 2
          /\ \E a, c \in Objects : a # c /\ o \in Kids(a) /\ o \in Kids(c)


(***************************************************************************)
(* C22  Buffer bound in the list read.  For every byte size the size query *)
(* reports, the sizes that are not a multiple of the element size          *)
(* included, the byte capacity get_list_property_scoped passes to the data *)
(* fetch is at most the byte size of the buffer it allocated: the element  *)
(* count (the reported size divided by the element size, rounded down)     *)
(* times the element size.                                                 *)
(***************************************************************************)
Fetched == lst.phase \in {"returned", "faulted"} /\ lst.q_status = 0

AllocatedBytes == lst.objects * lst.elem

C22_BufferBound == Fetched => lst.capacity <= AllocatedBytes

====
